---- MODULE Spec2Model ----
(***************************************************************************)
(* Model of the two geodemo.py scripts of the repository:                  *)
(*   "geolocation" : 2025-10-21 geolocation poc/geolocation/geodemo.py     *)
(*                   (the CRS is an asset path to a prim of another file,  *)
(*                   resolved by the memoized get_crs_projcs)              *)
(*   "inherits"    : 2025-10-22 inherits-primvars/geodemo.py               *)
(*                   (the CRS is WKT text authored inline on a prim)       *)
(* Both memoize get_transformer with functools.lru_cache(maxsize=32).      *)
(* Neither script has a try/except: an exception raised while a prim is    *)
(* processed leaves traverse_and_print_geolocation and ends the run.       *)
(*                                                                         *)
(* The file system, the USD documents and the two libraries (pycrs,        *)
(* pyproj) are the environment: what a probe, an open or a read finds is   *)
(* chosen by the environment at the moment the code performs it.           *)
(***************************************************************************)
EXTENDS Integers, Sequences, FiniteSets, TLC

\* ------------------------------------------------------------- bounds
\* Number of prims in the traversed stage.
MaxNodes == 3
\* SpecCache: how many more distinct keys than the cache capacity are requested.
MaxExtra == 1
\* SpecCache: how many times a key requested before is requested again.
MaxRepeats == 1
\* SpecPtr: the longest asset path string handed to get_crs_projcs.
MaxLen == 4

\* ---------------------------------------------------- program constants
\* functools.lru_cache(maxsize=32) on get_crs_projcs and on get_transformer.
maxsize == 32

\* ------------------------------------------------------------- values
Variants == {"geolocation", "inherits"}

\* WKT texts the environment can hold; pycrs rejects "BAD".
Texts == {"W1", "W2", "BAD"}

\* Python's None in a slot that otherwise holds a CRS object.
None == [id |-> 0, wkt |-> "None"]

\* The CRS object main() builds and passes as target_crs (object number 1).
MainTarget == [id |-> 1, wkt |-> "W2"]

\* Asset paths authored on prims in the "geolocation" script: two well-formed
\* pointers and one without its closing bracket.
PtrA == <<"a", "<", "p", ">">>
PtrB == <<"b", "<", "p", ">">>
PtrBad == <<"a", "<", "p">>
Pointers == {PtrA, PtrB, PtrBad}

\* stage_path handed to traverse_and_print_geolocation.
stage_path == <<"d", "/", "s">>

\* ------------------------------------------------------ string helpers
HasChar(s, c) == \E k \in 1..Len(s) : s[k] = c

\* os.path.dirname: everything before the last "/" ("" when there is none).
dirname(p) ==
    IF ~HasChar(p, "/") THEN <<>>
    ELSE LET k == CHOOSE j \in 1..Len(p) :
                    p[j] = "/" /\ \A m \in (j+1)..Len(p) : p[m] # "/"
         IN  IF k = 1 THEN <<"/">> ELSE SubSeq(p, 1, k - 1)

\* os.path.join(folder, file_path) for a str folder.
path_join(a, p) ==
    IF p # <<>> /\ p[1] = "/" THEN p
    ELSE IF a = <<>> \/ a[Len(a)] = "/" THEN a \o p
    ELSE a \o <<"/">> \o p

\* re.match(r"^([^<]*)<([^<>]*)>$", asset_path): "$" matches at the end of the
\* string and also just before a newline that ends the string.
re_body(s) ==
    IF s # <<>> /\ s[Len(s)] = "\n" THEN SubSeq(s, 1, Len(s) - 1) ELSE s

re_match(s) ==
    LET t == re_body(s)
        lts == {k \in 1..Len(t) : t[k] = "<"}
    IN  IF t # <<>> /\ t[Len(t)] = ">" /\ lts # {}
        THEN LET j == CHOOSE k \in lts : \A m \in lts : k <= m
             IN  IF \A m \in (j+1)..(Len(t)-1) : t[m] \notin {"<", ">"}
                 THEN [ok |-> TRUE, g1 |-> SubSeq(t, 1, j - 1),
                       g2 |-> SubSeq(t, j + 1, Len(t) - 1)]
                 ELSE [ok |-> FALSE, g1 |-> <<>>, g2 |-> <<>>]
        ELSE [ok |-> FALSE, g1 |-> <<>>, g2 |-> <<>>]

\* ------------------------------------------------------------ pycrs
\* from_ogc_wkt(text): raises on text that is no CRS definition, else returns
\* a new object (number id) holding the parsed definition.
wkt_parses(text) == text \in {"W1", "W2"}

from_ogc_wkt(text, id) == [id |-> id, wkt |-> text]

\* crs.name of a parsed CRS object.
crs_name(obj) ==
    CASE obj.wkt = "W1" -> "UTM Zone 17N"
      [] obj.wkt = "W2" -> "NAD83 / UTM zone 17N"
      [] OTHER -> "?"

\* ------------------------------------------------------- lru_cache
\* A cache is the sequence of its entries <<key, value>>, least recently used
\* first (functools.lru_cache keeps them in a linked list in that order).
lru_index(cache, key) ==
    IF \E k \in 1..Len(cache) : cache[k][1] = key
    THEN CHOOSE k \in 1..Len(cache) : cache[k][1] = key
    ELSE 0

lru_has(cache, key) == lru_index(cache, key) # 0

lru_value(cache, key) == cache[lru_index(cache, key)][2]

Remove(seq, k) == SubSeq(seq, 1, k - 1) \o SubSeq(seq, k + 1, Len(seq))

\* A hit that leaves the order as it is (first in, first out).
lru_hit_keeps_order(cache, key) == cache

\* A hit moves the entry to the most-recently-used end.
lru_hit(cache, key) ==
    LET k == lru_index(cache, key)
    IN  Remove(cache, k) \o <<cache[k]>>

\* A store that makes room by dropping the newest entry.
lru_store_drops_newest(cache, key, val) ==
    IF Len(cache) >= maxsize
    THEN SubSeq(cache, 1, Len(cache) - 1) \o <<<<key, val>>>>
    ELSE cache \o <<<<key, val>>>>

\* A miss whose call returned: the result is stored as most recently used; a
\* full cache first drops its least recently used entry.
lru_store(cache, key, val) ==
    IF Len(cache) >= maxsize
    THEN Tail(cache) \o <<<<key, val>>>>
    ELSE cache \o <<<<key, val>>>>

\* ------------------------------------------------ get_crs_projcs
\* What the file system and the referenced document hold when get_crs_projcs
\* looks: os.path.exists, Usd.Stage.Open, GetPrimAtPath, the attribute
\* "geolocation:crs:wkt" and its text.
FsView(e, o, p, a, w) == [exists |-> e, opens |-> o, prim |-> p, attr |-> a, wkt |-> w]

FsViews ==
    {FsView(FALSE, FALSE, FALSE, FALSE, "BAD"),
     FsView(TRUE, FALSE, FALSE, FALSE, "BAD"),
     FsView(TRUE, TRUE, FALSE, FALSE, "BAD"),
     FsView(TRUE, TRUE, TRUE, FALSE, "BAD")}
    \cup {FsView(TRUE, TRUE, TRUE, TRUE, w) : w \in Texts}

\* The folder argument: None, or a str.
NoFolder == [given |-> FALSE, path |-> <<>>]
Folder(p) == [given |-> TRUE, path |-> p]

\* The outcome of a call: what it returned or that it raised, the warning it
\* printed, and the accesses it made (probes: os.path.exists, opens:
\* Usd.Stage.Open, parses: from_ogc_wkt).
Outcome(raised, exc, ret, warn, path, probes, opens, parses) ==
    [raised |-> raised, exc |-> exc, ret |-> ret, warn |-> warn, path |-> path,
     probes |-> probes, opens |-> opens, parses |-> parses]

\* The body of get_crs_projcs; id is the number of the object a successful
\* parse creates.
crs_projcs_body(asset_path, folder, fs, id) ==
    LET match == re_match(asset_path)
        file_path == IF folder.given THEN path_join(folder.path, match.g1)
                     ELSE match.g1
    IN  IF ~match.ok
        THEN Outcome(TRUE, "AttributeError: 'NoneType' object has no attribute 'group'",
                     None, "", <<>>, 0, 0, 0)
        ELSE IF ~fs.exists
        THEN Outcome(FALSE, "", None, "Warning: Geospatial USD file not found",
                     file_path, 1, 0, 0)
        ELSE IF ~fs.opens
        THEN Outcome(FALSE, "", None, "Warning: Could not open geospatial USD stage",
                     file_path, 1, 1, 0)
        ELSE IF ~fs.prim
        THEN Outcome(FALSE, "", None, "Warning: CRS prim not found",
                     file_path, 1, 1, 0)
        ELSE IF ~fs.attr
        THEN Outcome(FALSE, "", None, "Warning: 'geolocation:crs:wkt' attribute not found",
                     file_path, 1, 1, 0)
        ELSE IF ~wkt_parses(fs.wkt)
        THEN Outcome(TRUE, "pycrs parse error", None, "", file_path, 1, 1, 1)
        ELSE Outcome(FALSE, "", from_ogc_wkt(fs.wkt, id), "", file_path, 1, 1, 1)

\* The cache key of a get_crs_projcs call: its two arguments, compared as
\* strings.
crs_key(asset_path, folder) == <<asset_path, folder>>

\* A call of the memoized function, by lru_cache's wrapper.
Called(cache, hit, out) == [cache |-> cache, hit |-> hit, out |-> out]

\* get_crs_projcs looking the reference up again on every call.
get_crs_projcs_nocache(cache, asset_path, folder, fs, id) ==
    LET out == crs_projcs_body(asset_path, folder, fs, id)
    IN  Called(IF out.raised THEN cache
               ELSE IF lru_has(cache, crs_key(asset_path, folder)) THEN cache
               ELSE lru_store(cache, crs_key(asset_path, folder), out.ret),
               FALSE, out)

\* get_crs_projcs looking the reference up again when the entry it finds is
\* a failed lookup's None.
get_crs_projcs_retry_none(cache, asset_path, folder, fs, id) ==
    LET key == crs_key(asset_path, folder)
        out == crs_projcs_body(asset_path, folder, fs, id)
    IN  IF lru_has(cache, key) /\ lru_value(cache, key) # None
        THEN Called(lru_hit(cache, key), TRUE,
                    Outcome(FALSE, "", lru_value(cache, key), "", <<>>, 0, 0, 0))
        ELSE IF lru_has(cache, key)
        THEN Called(IF out.raised THEN cache
                    ELSE Remove(cache, lru_index(cache, key)) \o <<<<key, out.ret>>>>,
                    FALSE, out)
        ELSE Called(IF out.raised THEN cache ELSE lru_store(cache, key, out.ret),
                    FALSE, out)

get_crs_projcs(cache, asset_path, folder, fs, id) ==
    LET key == crs_key(asset_path, folder)
    IN  IF lru_has(cache, key)
        THEN Called(lru_hit(cache, key), TRUE,
                    Outcome(FALSE, "", lru_value(cache, key), "", <<>>, 0, 0, 0))
        ELSE LET out == crs_projcs_body(asset_path, folder, fs, id)
             IN  Called(IF out.raised THEN cache
                        ELSE lru_store(cache, key, out.ret), FALSE, out)

\* ------------------------------------------------ get_transformer
\* A pyproj transformer, built from the two definitions' WKT.
NoTransformer == [src |-> "None", dst |-> "None"]

\* The cache key of a get_transformer call: its two arguments. pycrs objects
\* define neither __eq__ nor __hash__, so lru_cache compares them by identity.
transformer_key(from_crs, to_crs) == <<from_crs.id, to_crs.id>>

\* The body of get_transformer; build_ok is whether pyproj accepts the pair.
transformer_body(from_crs, to_crs, build_ok) ==
    IF from_crs = None \/ to_crs = None
    THEN [raised |-> TRUE, ret |-> NoTransformer, builds |-> 0,
          exc |-> "AttributeError: 'NoneType' object has no attribute 'to_ogc_wkt'"]
    ELSE IF ~build_ok
    THEN [raised |-> TRUE, ret |-> NoTransformer, builds |-> 0,
          exc |-> "pyproj CRSError"]
    ELSE [raised |-> FALSE, ret |-> [src |-> from_crs.wkt, dst |-> to_crs.wkt],
          builds |-> 1, exc |-> ""]

get_transformer(cache, from_crs, to_crs, build_ok) ==
    LET key == transformer_key(from_crs, to_crs)
    IN  IF lru_has(cache, key)
        THEN Called(lru_hit(cache, key), TRUE,
                    [raised |-> FALSE, ret |-> lru_value(cache, key), builds |-> 0,
                     exc |-> ""])
        ELSE LET out == transformer_body(from_crs, to_crs, build_ok)
             IN  Called(IF out.raised THEN cache
                        ELSE lru_store(cache, key, out.ret), FALSE, out)

\* transformer.transform(x, y): the projected pair (always_xy: easting first).
Offset(wkt) == IF wkt = "W1" THEN 100 ELSE 200

transformer_transform(tr, x, y) ==
    <<x - Offset(tr.src) + Offset(tr.dst), y - 2 * Offset(tr.src) + 2 * Offset(tr.dst)>>

\* ------------------------------------------------------ the stage
\* A prim: its parent (0: the pseudo-root) and the georeferencing primvar it
\* authors (has: whether it authors one). Prims are numbered in
\* Stage.Traverse() order (depth first, a parent before its children).
\* Whether a prim is Xformable is answered when the loop asks.
Authored(has, val) == [has |-> has, val |-> val]

\* What a prim can author: an asset path ("geolocation"), WKT text ("inherits").
AuthoredValues(v) ==
    IF v = "geolocation"
    THEN {Authored(FALSE, <<>>)} \cup {Authored(TRUE, p) : p \in Pointers}
    ELSE {Authored(FALSE, "")} \cup {Authored(TRUE, t) : t \in Texts}

RECURSIVE AncestorsOrSelf(_, _)
AncestorsOrSelf(parent, n) ==
    IF n = 0 THEN {} ELSE {n} \cup AncestorsOrSelf(parent, parent[n])

\* Parent maps of a depth-first numbering: prim n hangs under the pseudo-root
\* or under prim n-1 or one of its ancestors.
ParentMaps(len) ==
    {f \in [1..len -> 0..len] :
        \A n \in 1..len : f[n] < n /\ (f[n] = 0 \/ f[n] \in AncestorsOrSelf(f, n - 1))}

Stages(v) ==
    {[n \in 1..MaxNodes |-> [parent |-> f[n], authored |-> a[n]]] :
        f \in ParentMaps(MaxNodes),
        a \in [1..MaxNodes -> AuthoredValues(v)]}

\* The translation row of prim n's local-to-world matrix (row 3, entries 0..2).
WorldRow(n) == <<n, 10 + n, 20 + n>>

Unbound == [bound |-> FALSE, of |-> 0, row |-> <<0, 0, 0>>]

RECURSIVE NearestAuthored(_, _)
NearestAuthored(ps, n) ==
    IF n = 0 THEN 0
    ELSE IF ps[n].authored.has THEN n
    ELSE NearestAuthored(ps, ps[n].parent)

\* PrimvarsAPI(prim).FindPrimvarWithInheritance(name): the primvar authored on
\* the prim, else on its nearest ancestor that authors it, else an invalid one.
FindPrimvarWithInheritance(ps, n) ==
    LET k == NearestAuthored(ps, n)
    IN  IF k = 0 THEN ps[n].authored ELSE ps[k].authored

\* ------------------------------------------------------------ state
VARIABLES
    variant,          \* which of the two scripts runs
    target_crs,       \* the target_crs argument (None when not given)
    pc,               \* where traverse_and_print_geolocation stands
    exc,              \* the exception that ended the run ("" when none)
    prims,            \* the opened stage
    i,                \* the prim of the current loop iteration (0 before the first)
    xformable,        \* whether UsdGeom.Xformable(prim) is valid for it
    local_to_world,   \* the local variable local_to_world
    crs_primvar,      \* the primvar FindPrimvarWithInheritance returned
    crs,              \* the local variable crs once resolved
    out,              \* what was printed for the current prim, whether its CRS
                      \* was obtained (resolved) and its position projected
                      \* (transform): "" while not attempted
    crs_cache,        \* lru_cache of get_crs_projcs
    tr_cache,         \* lru_cache of get_transformer
    next_id,          \* number of the next object created
    io,               \* accesses made so far
    last,             \* the last memoized call
    drv               \* SpecCache: the calling sequence's progress

vars == <<variant, target_crs, pc, exc, prims, i, xformable, local_to_world, crs_primvar,
          crs, out, crs_cache, tr_cache, next_id, io, last, drv>>

Blank == [notice |-> "", warn |-> "", crs_name |-> "", coords |-> <<>>,
          resolved |-> "", transform |-> ""]

NoCall == [fn |-> "", key |-> <<>>, hit |-> FALSE, raised |-> FALSE, ret |-> None,
           path |-> <<>>]

NoIo == [calls |-> 0, probes |-> 0, opens |-> 0, parses |-> 0, builds |-> 0]

Idle == [fn |-> "", fresh |-> 0, stored |-> 0, repeats |-> 0, used |-> <<>>,
         born |-> <<>>]

InitCommon ==
    /\ exc = ""
    /\ prims = <<>>
    /\ i = 0
    /\ xformable = FALSE
    /\ local_to_world = Unbound
    /\ crs = None
    /\ out = Blank
    /\ crs_cache = <<>>
    /\ tr_cache = <<>>
    /\ next_id = 2
    /\ io = NoIo
    /\ last = NoCall

\* main() has parsed its target CRS (object 1); a caller may also pass none.
Init ==
    /\ variant \in Variants
    /\ target_crs \in {None, MainTarget}
    /\ pc = "start"
    /\ crs_primvar = Authored(FALSE, <<>>)
    /\ drv = Idle
    /\ InitCommon

\* ------------------------------------------- traverse_and_print_geolocation
Crash(e) == pc' = "crashed" /\ exc' = e

\* Lines 82-98: the file is missing, or does not open, or the stage is opened.
OpenStage ==
    /\ pc = "start"
    /\ \/ /\ pc' = "returned"
          /\ out' = [out EXCEPT !.notice = "Error: File not found"]
          /\ UNCHANGED prims
       \/ /\ pc' = "returned"
          /\ out' = [out EXCEPT !.notice = "Error: Could not open USD stage"]
          /\ UNCHANGED prims
       \/ /\ pc' = "visit"
          /\ prims' \in Stages(variant)
          /\ UNCHANGED out
    /\ UNCHANGED <<variant, target_crs, exc, i, xformable, local_to_world, crs_primvar, crs,
                   crs_cache, tr_cache, next_id, io, last, drv>>

\* The loop head and the transform printing of the next prim. The "inherits"
\* script leaves a prim that is not Xformable at once (continue).
VisitPrim ==
    /\ pc = "visit"
    /\ i < Len(prims)
    /\ i' = i + 1
    /\ xformable' \in BOOLEAN
    /\ IF xformable'
       THEN /\ local_to_world' = [bound |-> TRUE, of |-> i + 1, row |-> WorldRow(i + 1)]
            /\ out' = Blank
            /\ pc' = "locate"
       ELSE /\ UNCHANGED local_to_world
            /\ IF variant = "inherits"
               THEN /\ out' = [Blank EXCEPT !.notice = "Not an Xformable prim."]
                    /\ pc' = "visit"
               ELSE /\ out' = Blank
                    /\ pc' = "locate"
    /\ UNCHANGED <<variant, target_crs, exc, prims, crs_primvar, crs, crs_cache,
                   tr_cache, next_id, io, last, drv>>

\* Stage.Traverse() is exhausted: the function returns.
EndTraverse ==
    /\ pc = "visit"
    /\ i = Len(prims)
    /\ pc' = "done"
    /\ UNCHANGED <<variant, target_crs, exc, prims, i, xformable, local_to_world, crs_primvar,
                   crs, out, crs_cache, tr_cache, next_id, io, last, drv>>

\* A lookup that reads the prim's own primvar only.
LocateCRS_own_only(n) == prims[n].authored

\* "Find the prim's CRS".
LocateCRS(n) == FindPrimvarWithInheritance(prims, n)

LocatePrimvar ==
    /\ pc = "locate"
    /\ crs_primvar' = LocateCRS(i)
    /\ IF ~crs_primvar'.has
       THEN /\ out' = [out EXCEPT !.notice = "Prim is not georeferenced."]
            /\ pc' = "visit"
       ELSE /\ pc' = "resolve"
            /\ UNCHANGED out
    /\ UNCHANGED <<variant, target_crs, exc, prims, i, xformable, local_to_world, crs,
                   crs_cache, tr_cache, next_id, io, last, drv>>

\* The transform step entered whether or not a target CRS was given.
AfterName_unguarded == "transform"

\* Where the loop goes once the CRS name is printed.
AfterName == IF target_crs # None THEN "transform" ELSE "visit"

\* "geolocation", lines 131-133: crs = get_crs_projcs(crs_path, dirname);
\* print crs.name.
ResolveRef ==
    /\ pc = "resolve"
    /\ variant = "geolocation"
    /\ \E fs \in FsViews :
         LET c == get_crs_projcs(crs_cache, crs_primvar.val,
                                 Folder(dirname(stage_path)), fs, next_id)
         IN  /\ crs_cache' = c.cache
             /\ last' = [fn |-> "get_crs_projcs",
                         key |-> crs_key(crs_primvar.val, Folder(dirname(stage_path))),
                         hit |-> c.hit, raised |-> c.out.raised, ret |-> c.out.ret,
                         path |-> c.out.path]
             /\ io' = [io EXCEPT !.calls = @ + 1,
                                 !.probes = @ + c.out.probes,
                                 !.opens = @ + c.out.opens,
                                 !.parses = @ + c.out.parses]
             /\ next_id' = IF c.out.ret # None /\ ~c.hit THEN next_id + 1 ELSE next_id
             /\ IF c.out.raised
                THEN /\ Crash(c.out.exc)
                     /\ out' = [out EXCEPT !.resolved = "no"]
                     /\ UNCHANGED crs
                ELSE /\ crs' = c.out.ret
                     /\ IF c.out.ret = None
                        THEN /\ Crash("AttributeError: 'NoneType' object has no attribute 'name'")
                             /\ out' = [out EXCEPT !.warn = c.out.warn, !.resolved = "no"]
                        ELSE /\ out' = [out EXCEPT !.warn = c.out.warn, !.resolved = "yes",
                                                   !.crs_name = crs_name(c.out.ret)]
                             /\ pc' = AfterName
                             /\ UNCHANGED exc
    /\ UNCHANGED <<variant, target_crs, prims, i, xformable, local_to_world, crs_primvar,
                   tr_cache, drv>>

\* "inherits", lines 101-102: crs = from_ogc_wkt(crs_primvar.Get()); print crs.name.
ResolveInline ==
    /\ pc = "resolve"
    /\ variant = "inherits"
    /\ io' = [io EXCEPT !.parses = @ + 1]
    /\ IF ~wkt_parses(crs_primvar.val)
       THEN /\ Crash("pycrs parse error")
            /\ out' = [out EXCEPT !.resolved = "no"]
            /\ UNCHANGED <<crs, next_id>>
       ELSE /\ crs' = from_ogc_wkt(crs_primvar.val, next_id)
            /\ next_id' = next_id + 1
            /\ out' = [out EXCEPT !.resolved = "yes", !.crs_name = crs_name(crs')]
            /\ pc' = AfterName
            /\ UNCHANGED exc
    /\ UNCHANGED <<variant, target_crs, prims, i, xformable, local_to_world, crs_primvar,
                   crs_cache, tr_cache, last, drv>>

\* Lines 135-143 and transform(): read x, y, z off local_to_world, get the
\* transformer, apply it to (x, y), print.
TransformStep ==
    /\ pc = "transform"
    /\ IF ~local_to_world.bound
       THEN /\ Crash("UnboundLocalError: local_to_world")
            /\ UNCHANGED <<out, tr_cache, io, last>>
       ELSE \E build_ok \in BOOLEAN, apply_ok \in BOOLEAN :
              LET x == local_to_world.row[1]
                  y == local_to_world.row[2]
                  z == local_to_world.row[3]
                  c == get_transformer(tr_cache, crs, target_crs, build_ok)
              IN  /\ tr_cache' = c.cache
                  /\ last' = [fn |-> "get_transformer",
                              key |-> transformer_key(crs, target_crs),
                              hit |-> c.hit, raised |-> c.out.raised, ret |-> None,
                              path |-> <<>>]
                  /\ io' = [io EXCEPT !.calls = @ + 1, !.builds = @ + c.out.builds]
                  /\ IF c.out.raised
                     THEN /\ Crash(c.out.exc)
                          /\ out' = [out EXCEPT !.transform = "failed"]
                     ELSE IF ~apply_ok
                     THEN /\ Crash("pyproj ProjError")
                          /\ out' = [out EXCEPT !.transform = "failed"]
                     ELSE /\ out' = [out EXCEPT !.transform = "done", !.coords =
                                        transformer_transform(c.out.ret, x, y) \o <<z>>]
                          /\ pc' = "visit"
                          /\ UNCHANGED exc
    /\ UNCHANGED <<variant, target_crs, prims, i, xformable, local_to_world, crs_primvar, crs,
                   crs_cache, next_id, drv>>

Next ==
    \/ OpenStage
    \/ VisitPrim
    \/ EndTraverse
    \/ LocatePrimvar
    \/ ResolveRef
    \/ ResolveInline
    \/ TransformStep

Spec == Init /\ [][Next]_vars

\* --------------------------------------------- sequences of cache calls
\* SpecCache: a client calls one of the two memoized functions again and
\* again (get_transformer never touches get_crs_projcs's cache, nor the other
\* way round). Each new request uses the next unused key; once the cache is
\* full, a request may also repeat any earlier key.
\* drv.used[k] is the number of the last call that returned for key k (0: none
\* yet), kept beside the cache to state recency.
RECURSIVE Bin(_)
Bin(k) == IF k = 0 THEN <<>>
          ELSE Bin(k \div 2) \o <<IF k % 2 = 0 THEN "a" ELSE "b">>

\* The k-th asset path requested: a different file each; the third lacks its
\* closing bracket.
DriverPointer(k) ==
    IF k = 3 THEN Bin(k) \o <<"<", "p">> ELSE Bin(k) \o <<"<", "p", ">">>

\* What the k-th file holds when first requested.
DriverFs(k) ==
    CASE k % 8 = 0 -> FsView(FALSE, FALSE, FALSE, FALSE, "BAD")
      [] k % 8 = 4 -> FsView(TRUE, TRUE, TRUE, FALSE, "BAD")
      [] k % 8 = 5 -> FsView(TRUE, TRUE, TRUE, TRUE, "BAD")
      [] k % 8 = 6 -> FsView(TRUE, FALSE, FALSE, FALSE, "BAD")
      [] k % 8 = 7 -> FsView(TRUE, TRUE, FALSE, FALSE, "BAD")
      [] k % 8 = 2 -> FsView(TRUE, TRUE, TRUE, TRUE, "W2")
      [] OTHER -> FsView(TRUE, TRUE, TRUE, TRUE, "W1")

DriverCrsKey(k) == crs_key(DriverPointer(k), Folder(dirname(stage_path)))

\* The k-th CRS object the client parsed (object 1 is the target).
DriverCrs(k) == from_ogc_wkt(IF k % 2 = 0 THEN "W2" ELSE "W1", k + 1)

DriverTrKey(k) == transformer_key(DriverCrs(k), MainTarget)

InitCache ==
    /\ variant = "geolocation"
    /\ target_crs = MainTarget
    /\ pc = "calls"
    /\ crs_primvar = Authored(FALSE, <<>>)
    /\ drv \in {[Idle EXCEPT !.fn = f] : f \in {"get_crs_projcs", "get_transformer"}}
    /\ InitCommon

Touch(used, k, returned, now) ==
    IF k > Len(used)
    THEN used \o <<IF returned THEN now ELSE 0>>
    ELSE IF returned THEN [used EXCEPT ![k] = now] ELSE used

\* One call get_crs_projcs(DriverPointer(k), folder) with the file as fs.
CrsCall(k, fs, again) ==
    LET c == get_crs_projcs(crs_cache, DriverPointer(k),
                            Folder(dirname(stage_path)), fs, next_id)
    IN  /\ crs_cache' = c.cache
        /\ last' = [fn |-> "get_crs_projcs", key |-> DriverCrsKey(k),
                    hit |-> c.hit, raised |-> c.out.raised, ret |-> c.out.ret,
                         path |-> c.out.path]
        /\ io' = [io EXCEPT !.calls = @ + 1,
                            !.probes = @ + c.out.probes,
                            !.opens = @ + c.out.opens,
                            !.parses = @ + c.out.parses]
        /\ next_id' = IF c.out.ret # None /\ ~c.hit THEN next_id + 1 ELSE next_id
        /\ drv' = [drv EXCEPT
                     !.fresh = IF again THEN @ ELSE k,
                     !.repeats = IF again THEN @ + 1 ELSE @,
                     !.stored = IF ~c.hit /\ ~c.out.raised THEN @ + 1 ELSE @,
                     !.used = Touch(@, k, ~c.out.raised, io.calls + 1),
                     !.born = Touch(@, k, ~c.hit /\ ~c.out.raised, io.calls + 1)]
        /\ UNCHANGED <<variant, target_crs, pc, exc, prims, i, xformable,
                       local_to_world, crs_primvar, crs, out, tr_cache>>

\* The cache has been filled.
Warm == drv.stored >= maxsize

CallCrsFresh ==
    /\ pc = "calls"
    /\ drv.fn = "get_crs_projcs"
    /\ drv.stored < maxsize + MaxExtra
    /\ CrsCall(drv.fresh + 1, DriverFs(drv.fresh + 1), FALSE)

\* A repeated request finds the file as the environment holds it by then.
CallCrsAgain ==
    /\ pc = "calls"
    /\ drv.fn = "get_crs_projcs"
    /\ drv.repeats < MaxRepeats
    /\ Warm
    /\ \E k \in 1..drv.fresh, fs \in FsViews : CrsCall(k, fs, TRUE)

\* One call get_transformer(DriverCrs(k), target).
TrCall(k, build_ok, again) ==
    LET c == get_transformer(tr_cache, DriverCrs(k), MainTarget, build_ok)
    IN  /\ tr_cache' = c.cache
        /\ last' = [fn |-> "get_transformer", key |-> DriverTrKey(k),
                    hit |-> c.hit, raised |-> c.out.raised, ret |-> None,
                              path |-> <<>>]
        /\ io' = [io EXCEPT !.calls = @ + 1, !.builds = @ + c.out.builds]
        /\ next_id' = IF again THEN next_id ELSE next_id + 1
        /\ drv' = [drv EXCEPT
                     !.fresh = IF again THEN @ ELSE k,
                     !.repeats = IF again THEN @ + 1 ELSE @,
                     !.stored = IF ~c.hit /\ ~c.out.raised THEN @ + 1 ELSE @,
                     !.used = Touch(@, k, ~c.out.raised, io.calls + 1),
                     !.born = Touch(@, k, ~c.hit /\ ~c.out.raised, io.calls + 1)]
        /\ UNCHANGED <<variant, target_crs, pc, exc, prims, i, xformable,
                       local_to_world, crs_primvar, crs, out, crs_cache>>

\* pyproj rejects every fifth pair.
CallTrFresh ==
    /\ pc = "calls"
    /\ drv.fn = "get_transformer"
    /\ drv.stored < maxsize + MaxExtra
    /\ TrCall(drv.fresh + 1, (drv.fresh + 1) % 5 # 0, FALSE)

CallTrAgain ==
    /\ pc = "calls"
    /\ drv.fn = "get_transformer"
    /\ drv.repeats < MaxRepeats
    /\ Warm
    /\ \E k \in 1..drv.fresh, build_ok \in BOOLEAN : TrCall(k, build_ok, TRUE)

NextCache ==
    \/ CallCrsFresh
    \/ CallCrsAgain
    \/ CallTrFresh
    \/ CallTrAgain

SpecCache == InitCache /\ [][NextCache]_vars

\* ------------------------------------------------ one call on any string
\* A single call get_crs_projcs(asset_path, folder) on an arbitrary string
\* over a small alphabet: a path character, the separator, the two brackets
\* and the newline.
Chars == {"a", "/", "<", ">", "\n"}

PointerStrings == UNION {[1..n -> Chars] : n \in 0..MaxLen}

\* The folder argument: left out, or os.path.dirname(stage_path).
Folders == {NoFolder, Folder(dirname(stage_path))}

InitPtr ==
    /\ variant = "geolocation"
    /\ target_crs = None
    /\ pc = "ptr"
    /\ crs_primvar \in {Authored(TRUE, s) : s \in PointerStrings}
    /\ drv = Idle
    /\ InitCommon

CallPointer ==
    /\ pc = "ptr"
    /\ \E folder \in Folders, fs \in FsViews :
         LET c == get_crs_projcs(crs_cache, crs_primvar.val, folder, fs, next_id)
         IN  /\ crs_cache' = c.cache
             /\ last' = [fn |-> "get_crs_projcs",
                         key |-> crs_key(crs_primvar.val, folder),
                         hit |-> c.hit, raised |-> c.out.raised, ret |-> c.out.ret,
                         path |-> c.out.path]
             /\ io' = [io EXCEPT !.calls = @ + 1,
                                 !.probes = @ + c.out.probes,
                                 !.opens = @ + c.out.opens,
                                 !.parses = @ + c.out.parses]
             /\ next_id' = IF c.out.ret # None /\ ~c.hit THEN next_id + 1 ELSE next_id
             /\ crs' = c.out.ret
             /\ exc' = c.out.exc
             /\ pc' = IF c.out.raised THEN "ptr_raised" ELSE "ptr_returned"
    /\ UNCHANGED <<variant, target_crs, prims, i, xformable, local_to_world,
                   crs_primvar, out, tr_cache, drv>>

NextPtr == CallPointer

SpecPtr == InitPtr /\ [][NextPtr]_vars

\* ================================================================ claims
InCache(cache, key) == \E k \in 1..Len(cache) : cache[k][1] = key

\* The prim whose authored primvar applies to prim n: an ancestor of n (or n)
\* that authors one, every other authoring prim of the chain being above it.
IsNearest(k, n) ==
    /\ k \in AncestorsOrSelf([m \in 1..Len(prims) |-> prims[m].parent], n)
    /\ prims[k].authored.has
    /\ \A j \in AncestorsOrSelf([m \in 1..Len(prims) |-> prims[m].parent], n) :
          prims[j].authored.has
             => j \in AncestorsOrSelf([m \in 1..Len(prims) |-> prims[m].parent], k)

NoneAuthors(n) ==
    \A j \in AncestorsOrSelf([m \in 1..Len(prims) |-> prims[m].parent], n) :
        ~prims[j].authored.has

\* The current prim has been dealt with: the loop is back at its head, or the
\* run ended on it.
PrimLeft == i >= 1 /\ pc \in {"visit", "done", "crashed"}

\* C1: a prim whose georeference is found but whose CRS cannot be obtained gets
\* a diagnostic and no CRS record, and the run goes on to the prims after it.
C1_UnresolvedIsNodeLocal ==
    out.resolved = "no" =>
        /\ out.warn # ""
        /\ out.crs_name = "" /\ out.coords = <<>>
        /\ pc # "crashed"

\* C2: a get_crs_projcs call whose key is in the cache probes no file, opens no
\* document, parses nothing, and returns the very object stored for the key,
\* which is the object the storing call returned.
C2_HitTouchesNothing ==
    [][(io'.calls # io.calls /\ last'.fn = "get_crs_projcs")
         => /\ InCache(crs_cache, last'.key)
               => /\ last'.hit /\ ~last'.raised
                  /\ \E k \in 1..Len(crs_cache) :
                        crs_cache[k][1] = last'.key /\ crs_cache[k][2] = last'.ret
                  /\ io'.probes = io.probes
                  /\ io'.opens = io.opens
                  /\ io'.parses = io.parses
                  /\ next_id' = next_id
            /\ (~InCache(crs_cache, last'.key) /\ ~last'.raised)
               => \E k \in 1..Len(crs_cache') :
                     crs_cache'[k][1] = last'.key /\ crs_cache'[k][2] = last'.ret]_vars

C2_Witness ==
    /\ pc = "calls"
    /\ last.fn = "get_crs_projcs" /\ last.hit /\ last.ret # None
    /\ io.opens < io.calls

\* The cache the SpecCache client exercises, before and after a step, and the
\* key of its k-th request.
DrvCache == IF drv.fn = "get_crs_projcs" THEN crs_cache ELSE tr_cache
DrvCacheNext == IF drv.fn = "get_crs_projcs" THEN crs_cache' ELSE tr_cache'
DrvHas(cache, k) ==
    IF drv.fn = "get_crs_projcs" THEN InCache(cache, DriverCrsKey(k))
    ELSE InCache(cache, DriverTrKey(k))

\* C3: neither cache ever holds more than 32 entries; a call that misses a
\* full cache and returns evicts exactly one entry, the one whose last use (hit
\* or insertion) is the oldest, and stores its own.
C3_BoundedLru ==
    /\ [](Len(crs_cache) <= 32 /\ Len(tr_cache) <= 32)
    /\ [][(io'.calls # io.calls /\ ~last'.hit /\ ~last'.raised
             /\ Len(DrvCache) = 32)
            => /\ Len(DrvCacheNext) = 32
               /\ InCache(DrvCacheNext, last'.key)
               /\ \E e \in 1..Len(drv.used) :
                     /\ DrvHas(DrvCache, e) /\ ~DrvHas(DrvCacheNext, e)
                     /\ \A k \in 1..Len(drv.used) :
                           (k # e /\ DrvHas(DrvCache, k))
                              => DrvHas(DrvCacheNext, k) /\ drv.used[e] < drv.used[k]]_vars

C3_Witness ==
    /\ pc = "calls"
    /\ Len(DrvCache) = 32
    /\ drv.stored > 32
    /\ drv.repeats > 0

\* C4: the georeference the loop works with for a prim is the one authored on
\* the nearest prim of its ancestor chain (itself first) that authors one; a
\* prim is reported as not georeferenced only when none of them authors one.
C4_NearestAuthoredWins ==
    /\ (pc \in {"resolve", "transform"} \/ out.resolved # "")
          => \E k \in 1..Len(prims) : IsNearest(k, i) /\ crs_primvar = prims[k].authored
    /\ (out.resolved # "" /\ variant = "geolocation" /\ last.fn = "get_crs_projcs")
          => \E k \in 1..Len(prims) : IsNearest(k, i) /\ last.key[1] = prims[k].authored.val
    /\ (out.resolved = "yes" /\ variant = "inherits")
          => \E k \in 1..Len(prims) : IsNearest(k, i) /\ crs.wkt = prims[k].authored.val
    /\ out.notice = "Prim is not georeferenced." => NoneAuthors(i)

\* A prim and its parent author different values, and the prim's own is used.
C4_Witness ==
    /\ pc = "resolve"
    /\ prims[i].parent # 0
    /\ prims[i].authored.has
    /\ prims[prims[i].parent].authored.has
    /\ prims[prims[i].parent].authored # prims[i].authored

\* C5: a prim with no georeference authored on it or above it is reported as
\* not georeferenced, with no diagnostic, no CRS record and no call of the
\* resolver or the transformer.
C5_UnreferencedIsReported ==
    (PrimLeft /\ NoneAuthors(i)) =>
        /\ out.notice = "Prim is not georeferenced."
        /\ out.warn = "" /\ out.crs_name = "" /\ out.coords = <<>>
        /\ out.resolved = "" /\ out.transform = ""
        /\ pc # "crashed"

\* C6: a transformer that cannot be built or applied is a failure of that
\* prim's transform step only: the run goes on.
C6_TransformFailureIsNodeLocal ==
    out.transform = "failed" => pc # "crashed"

\* C7: requests for the same pair of CRS definitions share one cache entry:
\* the transformer cache never holds two entries built from the same pair.
C7_OneEntryPerDefinitionPair ==
    \A a, b \in 1..Len(tr_cache) : tr_cache[a][2] = tr_cache[b][2] => a = b

\* C8: the result of a failed resolution is never used as a CRS: no name is
\* read from it and it is not handed to the transformer.
C8_NoneIsNeverUsed ==
    /\ exc # "AttributeError: 'NoneType' object has no attribute 'name'"
    /\ exc # "AttributeError: 'NoneType' object has no attribute 'to_ogc_wkt'"

\* C9: a malformed asset path is a failure of its prim only: a diagnostic is
\* printed, the reference cache is as before, and the run goes on.
C9_MalformedPointerIsNodeLocal ==
    (variant = "geolocation" /\ out.resolved # "" /\ ~re_match(crs_primvar.val).ok)
        => /\ out.resolved = "no"
           /\ ~InCache(crs_cache, crs_key(crs_primvar.val, Folder(dirname(stage_path))))
           /\ out.warn # ""
           /\ pc # "crashed"

\* C10: a run ends early only when the stage cannot be opened, and then with
\* no prim visited and both caches untouched; every other run ends with every
\* prim processed.
C10_OnlyOpenFailureEndsEarly ==
    pc \in {"returned", "done", "crashed"} =>
        \/ pc = "returned" /\ i = 0 /\ crs_cache = <<>> /\ tr_cache = <<>>
        \/ pc = "done" /\ i = Len(prims)

\* The state of the loop's work on the current prim, read off the program
\* counter and what has been printed for the prim.
NodeState ==
    CASE i = 0 -> "Unvisited"
      [] i >= 1 /\ pc = "locate" -> "LocatingCRS"
      [] i >= 1 /\ pc = "resolve" -> "ResolvingCRS"
      [] i >= 1 /\ pc = "transform" -> "Transforming"
      [] PrimLeft /\ out.notice = "Prim is not georeferenced." -> "Unreferenced"
      [] PrimLeft /\ out.notice = "Not an Xformable prim." -> "Skipped"
      [] PrimLeft /\ out.notice = "" /\ out.resolved = "no" -> "Unresolved"
      [] PrimLeft /\ out.notice = "" /\ out.resolved = "yes" /\ pc = "crashed"
            -> "Transforming"
      [] PrimLeft /\ out.notice = "" /\ out.resolved = "yes" /\ pc # "crashed"
            -> "Done"
      [] OTHER -> "Aborted"

TerminalStates == {"Unreferenced", "Unresolved", "Done"}

NodeTransitions ==
    {<<"Unvisited", "LocatingCRS">>,
     <<"LocatingCRS", "Unreferenced">>, <<"LocatingCRS", "ResolvingCRS">>,
     <<"ResolvingCRS", "Unresolved">>, <<"ResolvingCRS", "Done">>,
     <<"ResolvingCRS", "Transforming">>, <<"Transforming", "Done">>}

\* C11: each prim moves through the per-prim states along the listed
\* transitions only, every prim the loop leaves is left in one of the terminal
\* states Unreferenced, Unresolved, Done, and a run that ends ends after the
\* last prim.
C11_PerNodeStateMachine ==
    /\ [](PrimLeft => NodeState \in TerminalStates)
    /\ [](pc \in {"done", "crashed"} => pc = "done" /\ i = Len(prims))
    /\ [][IF i' = i
          THEN NodeState' = NodeState \/ <<NodeState, NodeState'>> \in NodeTransitions
          ELSE /\ NodeState \in TerminalStates \cup {"Unvisited"}
               /\ NodeState' = "LocatingCRS"]_vars

\* C12: what is computed for a prim uses nothing computed for an earlier prim
\* but the two caches: the position handed to the transform step is read off
\* the world matrix computed for that very prim.
C12_PositionIsTheNodesOwn ==
    (pc = "transform" \/ out.transform = "done") =>
        /\ local_to_world.bound
        /\ local_to_world.of = i
        /\ local_to_world.row = WorldRow(i)

\* C13: for a prim with no world matrix (not Xformable) only the transform is
\* left out: its georeference is still looked up, its presence and the CRS
\* name are reported as for any prim, and nothing is transformed.
C13_NoMatrixSkipsTransformOnly ==
    (PrimLeft /\ ~xformable) =>
        /\ out.notice # "Not an Xformable prim."
        /\ NoneAuthors(i) \/ out.resolved # ""
        /\ out.resolved = "yes" => out.crs_name # ""
        /\ out.transform = "" /\ out.coords = <<>>
        /\ exc # "UnboundLocalError: local_to_world"

\* C14: the coordinate printed for a prim is (x', y', z): (x', y') is the
\* transformer of (the prim's CRS, the target CRS) applied to the first two
\* entries of the last row of the prim's world matrix, z is the third entry as
\* it is, and the matrix is left as computed.
C14_TransformsXYKeepsZ ==
    out.transform = "done" =>
        /\ out.coords =
              transformer_transform([src |-> crs.wkt, dst |-> target_crs.wkt],
                                    WorldRow(i)[1], WorldRow(i)[2])
                 \o <<WorldRow(i)[3]>>
        /\ local_to_world.row = WorldRow(local_to_world.of)

\* C15 as stated: whenever a cache evicts, the entry evicted is the one that
\* was inserted earliest among those present, whatever hits came in between.
C15_EarliestInsertedIsEvicted ==
    [][(io'.calls # io.calls /\ ~last'.hit /\ ~last'.raised /\ Len(DrvCache) = 32)
         => \E e \in 1..Len(drv.born) :
               /\ DrvHas(DrvCache, e) /\ ~DrvHas(DrvCacheNext, e)
               /\ \A k \in 1..Len(drv.born) :
                     (k # e /\ DrvHas(DrvCache, k)) => drv.born[e] < drv.born[k]]_vars

\* C15 amended: insertion order decides the eviction only as far as no hit
\* intervenes. Every entry present that was inserted before the evicted one
\* has been hit after the evicted one was last used; so the earliest inserted
\* entry is the one evicted unless it has been hit since its insertion.
C15_InsertionOrderUnlessHit ==
    [][(io'.calls # io.calls /\ ~last'.hit /\ ~last'.raised /\ Len(DrvCache) = 32)
         => \E e \in 1..Len(drv.born) :
               /\ DrvHas(DrvCache, e) /\ ~DrvHas(DrvCacheNext, e)
               /\ \A k \in 1..Len(drv.born) :
                     (k # e /\ DrvHas(DrvCache, k))
                        => /\ drv.born[k] < drv.born[e]
                              => drv.used[k] > drv.born[k] /\ drv.used[k] > drv.used[e]
                           /\ drv.used[k] = drv.born[k] => drv.born[e] < drv.born[k]]_vars

\* An entry has been evicted while an entry inserted before it is still there.
C15_Witness ==
    /\ pc = "calls"
    /\ Len(DrvCache) = 32
    /\ \E e, k \in 1..Len(drv.born) :
          /\ drv.born[e] > 0 /\ ~DrvHas(DrvCache, e)
          /\ DrvHas(DrvCache, k) /\ drv.born[k] < drv.born[e]

\* The ways to write s as document path + "<" + target path + ">" with no "<"
\* in the document path and no bracket in the target path.
PointerSplits(s) ==
    {<<SubSeq(s, 1, j - 1), SubSeq(s, j + 1, Len(s) - 1)>> :
        j \in {k \in 1..(Len(s) - 1) :
                  /\ s[k] = "<" /\ s[Len(s)] = ">"
                  /\ \A m \in 1..(k - 1) : s[m] # "<"
                  /\ \A m \in (k + 1)..(Len(s) - 1) : s[m] \notin {"<", ">"}}}

\* C16: a string get_crs_projcs accepts is document path + "<" + target path +
\* ">" in exactly one way, and the path looked up is os.path.join of the folder
\* and the document path when a folder is given, the document path otherwise;
\* any other string is rejected with no file system access.
C16_AcceptedPointersSplit ==
    pc \in {"ptr_raised", "ptr_returned"} =>
        LET s == crs_primvar.val
            folder == last.key[2]
        IN  /\ io.probes > 0 =>
                  /\ Cardinality(PointerSplits(s)) = 1
                  /\ \A sp \in PointerSplits(s) :
                        last.path = IF folder.given THEN path_join(folder.path, sp[1])
                                    ELSE sp[1]
            /\ PointerSplits(s) = {} =>
                  last.raised /\ io.probes = 0 /\ io.opens = 0 /\ io.parses = 0

\* C17: a get_crs_projcs call that fails by returning None stores that None
\* under its key, and a later call with the key is a hit that returns None
\* with no probe, open or parse, whatever the file system holds by then; a
\* call that fails by raising leaves the cache, contents and order, as it was,
\* so a later call with the key misses and looks the file up again.
C17_NegativeCachingByFailureKind ==
    [][(io'.calls # io.calls /\ last'.fn = "get_crs_projcs")
         => /\ (~last'.hit /\ ~last'.raised /\ last'.ret = None)
               => /\ crs_cache' # <<>>
                  /\ crs_cache'[Len(crs_cache')] = <<last'.key, None>>
            /\ (\E k \in 1..Len(crs_cache) : crs_cache[k] = <<last'.key, None>>)
               => /\ last'.hit /\ ~last'.raised /\ last'.ret = None
                  /\ io'.probes = io.probes
                  /\ io'.opens = io.opens
                  /\ io'.parses = io.parses
            /\ last'.raised
               => ~last'.hit /\ crs_cache' = crs_cache
            /\ ~InCache(crs_cache, last'.key)
               => /\ ~last'.hit
                  /\ re_match(last'.key[1]).ok => io'.probes = io.probes + 1]_vars

\* A request has been answered with the None an earlier failed lookup left.
C17_Witness ==
    /\ pc = "calls"
    /\ last.fn = "get_crs_projcs" /\ last.hit /\ last.ret = None
    /\ InCache(crs_cache, last.key)
    /\ io.probes < io.calls

\* C18: in a run with no target CRS get_transformer is never called, so the
\* transformer cache stays empty and no transformer is built, and nothing is
\* transformed; a prim whose georeference the loop finds still has its CRS
\* resolved, and its name printed when the resolution succeeds.
C18_NoTargetLeavesTransformersAlone ==
    target_crs = None =>
        /\ tr_cache = <<>> /\ io.builds = 0
        /\ last.fn # "get_transformer"
        /\ pc # "transform"
        /\ out.transform = "" /\ out.coords = <<>>
        /\ (PrimLeft /\ out.notice = "") => out.resolved # ""
        /\ out.resolved = "yes" => crs # None /\ out.crs_name = crs_name(crs)

\* With no target CRS, a second prim's CRS has been resolved through the
\* reference cache.
C18_Witness ==
    /\ target_crs = None
    /\ pc = "visit" /\ i >= 2
    /\ out.resolved = "yes"
    /\ crs_cache # <<>>

====
